---- MODULE Spec2Model ----
(***************************************************************************)
(* Model of the merge_my_gpx library (src/src/lib.rs): path validation,    *)
(* directory scan, output path derivation and the invert / merge /         *)
(* decimate commands over a small file system.                             *)
(*                                                                         *)
(* Text (file names, track names, action labels) is a sequence of          *)
(* one-character strings, so that the std::path operations the code uses   *)
(* (file_stem, extension, with_extension, parent, join, Ord) are computed  *)
(* on characters as the library computes them.  A path is the sequence of  *)
(* its raw components, as typed ("x/./a.gpx" has the three components x,   *)
(* ".", a.gpx); an Option is a sequence of length 0 (None) or 1 (Some).    *)
(***************************************************************************)
EXTENDS Integers, Sequences, FiniteSets, TLC

VARIABLES
    dirs,      \* the directories of the file system (resolved paths)
    files,     \* the regular files: resolved path -> content
    files0,    \* the regular files when the command started
    pc,        \* position of the running command
    cmd,       \* the command and its arguments
    idx,       \* loop index into cmd.files (1-based)
    outs,      \* output_files of invert / decimate
    gpxs,      \* the documents merge has loaded so far
    result,    \* what the command returned
    events,    \* the loads and saves performed, in order
    hist,      \* transform pipeline: the document before and after each transform
    applied    \* transform pipeline: the transforms applied so far

vars == <<dirs, files, files0, pc, cmd, idx, outs, gpxs, result, events, hist, applied>>

fsVars == <<dirs, files, files0, pc, cmd, idx, outs, gpxs, result, events>>

pipeVars == <<hist, applied>>

-----------------------------------------------------------------------------
(* Bounds of the model. *)

MaxFiles == 2

MaxFactor == 2

MaxPts == 4

MaxSegs == 3

MaxTracks == 2

MaxPipeFactor == 3

-----------------------------------------------------------------------------
(* Text. *)

None == <<>>

Some(v) == <<v>>

S_gpx == <<"g", "p", "x">>

S_inverted == <<"i", "n", "v", "e", "r", "t", "e", "d">>

S_merged == <<"m", "e", "r", "g", "e", "d">>

S_decimated_by == <<"d", "e", "c", "i", "m", "a", "t", "e", "d", "-", "b", "y", "-">>

DotComp == <<".">>

\* The characters of the model in byte order (the order of OsStr's Ord).
AsciiOrder ==
    <<" ", "(", ")", "-", ".",
      "0", "1", "2", "3", "4", "5", "6", "7", "8", "9",
      "a", "b", "c", "d", "e", "f", "g", "h", "i", "j", "k", "l", "m",
      "n", "o", "p", "q", "r", "s", "t", "u", "v", "w", "x", "y", "z">>

CharRank(c) == CHOOSE i \in 1..Len(AsciiOrder) : AsciiOrder[i] = c

RECURSIVE StrLess(_, _)
StrLess(a, b) ==
    IF b = <<>> THEN FALSE
    ELSE IF a = <<>> THEN TRUE
    ELSE IF a[1] # b[1] THEN CharRank(a[1]) < CharRank(b[1])
    ELSE StrLess(Tail(a), Tail(b))

Digit(d) == AsciiOrder[5 + d + 1]

\* Display of an unsigned integer (the {0} of the Decimate label).
RECURSIVE Decimal(_)
Decimal(n) == IF n < 10 THEN <<Digit(n)>> ELSE Decimal(n \div 10) \o <<Digit(n % 10)>>

Reverse(s) == [i \in 1..Len(s) |-> s[Len(s) + 1 - i]]

-----------------------------------------------------------------------------
(* enum Action and its Display. *)

ActInvert == [kind |-> "Invert", factor |-> 0]

ActMerge == [kind |-> "Merge", factor |-> 0]

ActDecimate(f) == [kind |-> "Decimate", factor |-> f]

ActionLabel(action) ==
    CASE action.kind = "Decimate" -> S_decimated_by \o Decimal(action.factor)
      [] action.kind = "Invert" -> S_inverted
      [] action.kind = "Merge" -> S_merged

-----------------------------------------------------------------------------
(* Documents (gpx::Gpx) and the three transforms. *)

\* "<package name> v<package version>", fixed at build time; its text plays no part.
Creator == <<"m", "m", "g">>

\* Faulty variant: an unnamed track gets the label as its name.
RelabelUnnamed(name, action) ==
    Some((IF name = None THEN <<>> ELSE name[1]) \o <<" ", "(">> \o ActionLabel(action) \o <<")">>)

\* track.name.map(|name| format!("{name} ({})", action))
Relabel(name, action) ==
    IF name = None THEN None
    ELSE Some(name[1] \o <<" ", "(">> \o ActionLabel(action) \o <<")">>)

InvertTrack(track) ==
    [track EXCEPT !.name = Relabel(track.name, ActInvert),
                  !.segments = Reverse([s \in 1..Len(track.segments) |->
                                            Reverse(track.segments[s])])]

InvertDoc(gpx) ==
    [gpx EXCEPT !.tracks = LET rev == Reverse(gpx.tracks)
                           IN [t \in 1..Len(rev) |-> InvertTrack(rev[t])],
                !.creator = Some(Creator)]

\* The filter of decimate: 0-based index i of n points.
\* Faulty variant: the last point is not kept for its own sake.
KeepNoLast(i, n, factor) == i % factor = 0

Keep(i, n, factor) == i % factor = 0 \/ i = n - 1

DecimatePoints(points, factor) ==
    LET n == Len(points)
        F[i \in 0..n] ==
            IF i = n THEN <<>>
            ELSE (IF Keep(i, n, factor) THEN <<points[i + 1]>> ELSE <<>>) \o F[i + 1]
    IN F[0]

\* i % 0 panics; the closure runs once per point, so only on a non-empty segment.
DecimatePanics(gpx, factor) ==
    /\ factor = 0
    /\ \E t \in 1..Len(gpx.tracks) :
          \E s \in 1..Len(gpx.tracks[t].segments) : gpx.tracks[t].segments[s] # <<>>

DecimateTrack(track, factor) ==
    [track EXCEPT !.name = Relabel(track.name, ActDecimate(factor)),
                  !.segments = [s \in 1..Len(track.segments) |->
                                    DecimatePoints(track.segments[s], factor)]]

DecimateDoc(gpx, factor) ==
    [gpx EXCEPT !.tracks = [t \in 1..Len(gpx.tracks) |-> DecimateTrack(gpx.tracks[t], factor)],
                !.creator = Some(Creator)]

RECURSIVE Flatten(_)
Flatten(ss) == IF ss = <<>> THEN <<>> ELSE Head(ss) \o Flatten(Tail(ss))

TrackSegments(gpx) == Flatten([t \in 1..Len(gpx.tracks) |-> gpx.tracks[t].segments])

\* Faulty variant: only the first track of each document is taken.
MergeSegmentsFirstTrack(docs) ==
    Flatten([d \in 1..Len(docs) |->
                IF docs[d].tracks = <<>> THEN <<>> ELSE docs[d].tracks[1].segments])

MergeSegments(docs) == Flatten([d \in 1..Len(docs) |-> TrackSegments(docs[d])])

DefaultTrack == [name |-> None, segments |-> <<>>]

DefaultDoc ==
    [version |-> "unknown", creator |-> None, metadata |-> None,
     waypoints |-> <<>>, tracks |-> <<>>, routes |-> <<>>]

MergeDocs(docs) ==
    [DefaultDoc EXCEPT !.creator = Some(Creator),
                       !.version = "1.1",
                       !.tracks = <<[DefaultTrack EXCEPT !.segments = MergeSegments(docs)]>>]

-----------------------------------------------------------------------------
(* The transform pipeline: one document, inverted up to twice or decimated. *)

RECURSIVE SumSeq(_)
SumSeq(s) == IF s = <<>> THEN 0 ELSE Head(s) + SumSeq(Tail(s))

\* Segment counts per track, with at most MaxSegs segments in the document.
SegCounts(t) == {c \in [1..t -> 0..MaxSegs] : SumSeq(c) <= MaxSegs}

\* The document of a shape: points are numbered 1, 2, ... through the document.
ShapeDoc(named, counts, lens) ==
    LET segStart(t) == SumSeq(SubSeq(counts, 1, t - 1))
        ptStart(k) == SumSeq(SubSeq(lens, 1, k - 1))
        segment(k) == [i \in 1..lens[k] |-> ptStart(k) + i]
        track(t) == [name |-> IF named[t] THEN Some(<<"t", Digit(t)>>) ELSE None,
                     segments |-> [s \in 1..counts[t] |-> segment(segStart(t) + s)]]
    IN [version |-> "1.0", creator |-> Some(<<"o">>), metadata |-> Some("meta"),
        waypoints |-> <<101>>, tracks |-> [t \in 1..Len(counts) |-> track(t)],
        routes |-> <<201>>]

\* The pipeline starts from any document of at most MaxTracks tracks, MaxSegs
\* segments in all and MaxPts points per segment, each track named or not.
PipeInit ==
    /\ \E t \in 0..MaxTracks :
          \E counts \in SegCounts(t) :
             \E named \in [1..t -> BOOLEAN] :
                \E lens \in [1..SumSeq(counts) -> 0..MaxPts] :
                   hist = <<ShapeDoc(named, counts, lens)>>
    /\ applied = <<>>
    /\ dirs = {}
    /\ files = <<>>
    /\ files0 = <<>>
    /\ pc = "off"
    /\ cmd = [name |-> "none", files |-> <<>>, factor |-> 0, output |-> <<>>, directory |-> <<>>]
    /\ idx = 1
    /\ outs = <<>>
    /\ gpxs = <<>>
    /\ result = "none"
    /\ events = <<>>

PipeInvert ==
    /\ Len(applied) < 2
    /\ \A i \in 1..Len(applied) : applied[i] = ActInvert
    /\ hist' = Append(hist, InvertDoc(hist[Len(hist)]))
    /\ applied' = Append(applied, ActInvert)
    /\ UNCHANGED fsVars

PipeDecimate(factor) ==
    /\ applied = <<>>
    /\ ~DecimatePanics(hist[1], factor)
    /\ hist' = Append(hist, DecimateDoc(hist[1], factor))
    /\ applied' = Append(applied, ActDecimate(factor))
    /\ UNCHANGED fsVars

-----------------------------------------------------------------------------
(* std::path on raw component sequences. *)

\* The file-system object a path names: "." components do not change it.
Resolve(p) == SelectSeq(p, LAMBDA c : c # DotComp)

\* Path::components keeps a leading "." and skips the others.
Components(p) ==
    IF p # <<>> /\ p[1] = DotComp THEN <<DotComp>> \o Resolve(Tail(p)) ELSE Resolve(p)

\* What is left of the raw text once trailing "." components are cut.
RECURSIVE TrimDots(_)
TrimDots(p) ==
    IF Len(p) > 1 /\ p[Len(p)] = DotComp THEN TrimDots(SubSeq(p, 1, Len(p) - 1)) ELSE p

FileName(p) ==
    LET q == TrimDots(p)
    IN IF q = <<>> \/ q[Len(q)] = DotComp THEN None ELSE Some(q[Len(q)])

LastDot(name) ==
    LET ds == {i \in 1..Len(name) : name[i] = "."}
    IN IF ds = {} THEN 0 ELSE CHOOSE i \in ds : \A j \in ds : j <= i

\* rsplit_file_at_dot: <<stem, extension>>, each an Option.
SplitAtDot(name) ==
    LET ld == LastDot(name)
    IN IF name = <<".", ".">> \/ ld <= 1 THEN <<Some(name), None>>
       ELSE <<Some(SubSeq(name, 1, ld - 1)), Some(SubSeq(name, ld + 1, Len(name)))>>

FileStem(p) == IF FileName(p) = None THEN None ELSE SplitAtDot(FileName(p)[1])[1]

Extension(p) == IF FileName(p) = None THEN None ELSE SplitAtDot(FileName(p)[1])[2]

Join(p, name) == Append(p, name)

Parent(p) ==
    LET q == TrimDots(p)
    IN IF q = <<>> THEN None ELSE Some(TrimDots(SubSeq(q, 1, Len(q) - 1)))

\* set_extension: cut the text after the file stem, then push "." and the extension.
WithExtension(p, ext) ==
    IF FileStem(p) = None THEN p
    ELSE LET q == TrimDots(p)
         IN [q EXCEPT ![Len(q)] = FileStem(p)[1] \o (IF ext = <<>> THEN <<>> ELSE <<".">> \o ext)]

RECURSIVE PathLess(_, _)
PathLess(p, q) ==
    IF q = <<>> THEN FALSE
    ELSE IF p = <<>> THEN TRUE
    ELSE IF p[1] # q[1] THEN StrLess(p[1], q[1])
    ELSE PathLess(Tail(p), Tail(q))

RECURSIVE SortPaths(_)
SortPaths(S) ==
    IF S = {} THEN <<>>
    ELSE LET m == CHOOSE p \in S :
                     \A q \in S \ {p} : PathLess(Components(p), Components(q))
         IN <<m>> \o SortPaths(S \ {m})

-----------------------------------------------------------------------------
(* The file system. *)

IsDir(p) == Resolve(p) \in dirs

IsFile(p) == Resolve(p) \in DOMAIN files

Good(gpx) == [ok |-> TRUE, gpx |-> gpx]

\* Content gpx::read rejects (also what an interrupted write leaves).
Corrupt == [ok |-> FALSE, gpx |-> DefaultDoc]

Put(fs, key, content) == [k \in DOMAIN fs \cup {key} |-> IF k = key THEN content ELSE fs[k]]

\* The entries read_dir yields for a directory, as directory.join(name).
ReadDir(directory) ==
    LET d == Resolve(directory)
    IN { Join(directory, k[Len(k)]) :
           k \in {e \in DOMAIN files \cup dirs :
                     Len(e) = Len(d) + 1 /\ SubSeq(e, 1, Len(d)) = d} }

-----------------------------------------------------------------------------
(* check_directory, check_files, list_gpx_files, get_output_file_path. *)

CheckDirectory(directory) == IF IsDir(directory) THEN "Ok" ELSE "ErrNotADirectory"

\* Faulty variant: the extension is not checked.
CheckFilesNoExtension(fl) ==
    IF Len(fl) = 1 /\ IsDir(fl[1]) THEN "ErrSingleDirectory"
    ELSE IF \E i \in 1..Len(fl) : ~IsFile(fl[i]) THEN "ErrNotAFile"
    ELSE IF Cardinality({fl[i] : i \in 1..Len(fl)}) # Len(fl) THEN "ErrDuplicate"
    ELSE "Ok"

CheckFiles(fl) ==
    LET bad == {i \in 1..Len(fl) : ~IsFile(fl[i]) \/ Extension(fl[i]) # Some(S_gpx)}
        first == CHOOSE i \in bad : \A j \in bad : i <= j
    IN IF Len(fl) = 1 /\ IsDir(fl[1]) THEN "ErrSingleDirectory"
       ELSE IF bad # {} THEN (IF ~IsFile(fl[first]) THEN "ErrNotAFile" ELSE "ErrWrongExtension")
       ELSE IF Cardinality({fl[i] : i \in 1..Len(fl)}) # Len(fl) THEN "ErrDuplicate"
       ELSE "Ok"

\* read_dir is taken to succeed on an existing directory; every entry whose
\* extension is gpx is kept, whatever its kind.
ListGpxFiles(directory) ==
    SortPaths({p \in ReadDir(directory) : Extension(p) = Some(S_gpx)})

\* Faulty variant: the action label is not appended to the stem of a file.
GetOutputFilePathNoLabel(path, action) ==
    IF IsDir(path) THEN WithExtension(Join(path, ActionLabel(action)), S_gpx)
    ELSE WithExtension(Join(Parent(path)[1], FileStem(path)[1]), Extension(path)[1])

GetOutputFilePath(path, action) ==
    IF IsDir(path) THEN WithExtension(Join(path, ActionLabel(action)), S_gpx)
    ELSE LET ext == Extension(path)[1]
             stem == FileStem(path)[1] \o <<"-">> \o ActionLabel(action)
             base == Parent(path)[1]
         IN WithExtension(Join(base, stem), ext)

-----------------------------------------------------------------------------
(* The file system the commands start from and the arguments they are given. *)

X == <<"x">>

E == <<"e">>

Missing == <<"n">>

N_a_gpx == <<"a", ".", "g", "p", "x">>

N_a_inverted_gpx == <<"a", "-">> \o S_inverted \o <<".">> \o S_gpx

N_a_b_gpx == <<"a", ".", "b", ".", "g", "p", "x">>

N_a_txt == <<"a", ".", "t", "x", "t">>

N_d_gpx == <<"d", ".", "g", "p", "x">>

N_out_gpx == <<"o", "u", "t", ".", "g", "p", "x">>

N_out_txt == <<"o", "u", "t", ".", "t", "x", "t">>

Track(name, segments) == [name |-> name, segments |-> segments]

DocA ==
    [version |-> "1.0", creator |-> Some(<<"o">>), metadata |-> Some("meta"),
     waypoints |-> <<101>>, routes |-> <<201>>,
     tracks |-> <<Track(Some(<<"t">>), << <<1, 2, 3>>, <<4>> >>),
                  Track(None, << <<5, 6>> >>)>>]

DocB ==
    [version |-> "1.1", creator |-> None, metadata |-> None,
     waypoints |-> <<>>, routes |-> <<>>,
     tracks |-> <<Track(Some(<<"u">>), << <<>>, <<7, 8>> >>)>>]

\* A document without any point.
DocE ==
    [version |-> "1.1", creator |-> None, metadata |-> None,
     waypoints |-> <<102>>, routes |-> <<>>,
     tracks |-> <<Track(None, << <<>> >>)>>]

\* Directory x holds a.gpx and a.txt, and may hold a-inverted.gpx, a.b.gpx and a
\* sub-directory named d.gpx; directory e is empty.
InitialFiles ==
    { [k \in {<<X, N_a_gpx>>, <<X, N_a_txt>>} \cup more |->
          IF k = <<X, N_a_gpx>> THEN ca
          ELSE IF k = <<X, N_a_txt>> THEN Good(DocA)
          ELSE IF k = <<X, N_a_inverted_gpx>> THEN Good(DocB)
          ELSE Good(DocE)] :
      ca \in {Good(DocA), Corrupt},
      more \in SUBSET {<<X, N_a_inverted_gpx>>, <<X, N_a_b_gpx>>} }

InitialDirs == { {<<X>>, <<E>>} \cup sub : sub \in SUBSET {<<X, N_d_gpx>>} }

\* The paths a file list is drawn from: the same file spelled twice, a file named
\* like another one's output, a name with two dots, a wrong extension, a directory.
FileArgs ==
    { <<X, N_a_gpx>>, <<X, DotComp, N_a_gpx>>, <<X, N_a_inverted_gpx>>,
      <<X, N_a_b_gpx>>, <<X, N_a_txt>>, <<X, N_d_gpx>>, <<X>> }

FileLists == UNION { [1..n -> FileArgs] : n \in 0..MaxFiles }

DirArgs == { <<X>>, <<X, DotComp>>, <<E>>, <<Missing>>, <<X, N_a_gpx>> }

OutputArgs == { <<X, N_out_gpx>>, <<X, N_a_gpx>>, <<X, N_out_txt>> }

Factors == 0..MaxFactor

NoCmd == [name |-> "none", files |-> <<>>, factor |-> 0, output |-> <<>>, directory |-> <<>>]

FsInit ==
    /\ dirs \in InitialDirs
    /\ files \in InitialFiles
    /\ files0 = files
    /\ pc = "idle"
    /\ cmd = NoCmd
    /\ idx = 1
    /\ outs = <<>>
    /\ gpxs = <<>>
    /\ result = "none"
    /\ events = <<>>

PipeIdle ==
    /\ hist = <<DefaultDoc>>
    /\ applied = <<>>

-----------------------------------------------------------------------------
(* The commands.  A command's first action is its code up to the loop over    *)
(* the files; then one action per loop iteration.  A save that fails leaves    *)
(* the loop at once, so a step is atomic.                                      *)

LoadEvent(path, ok) == [ev |-> "load", path |-> path, ok |-> ok]

SaveEvent(path, ok) == [ev |-> "save", path |-> path, ok |-> ok]

Return(r) ==
    /\ pc' = "done"
    /\ result' = r

\* File::create fails on a directory; any save may fail at create or during write.
SaveOutcomes(out) ==
    IF IsDir(out) THEN {"create_failed"} ELSE {"ok", "create_failed", "write_failed"}

FilesAfterSave(out, outcome, gpx) ==
    CASE outcome = "ok" -> Put(files, Resolve(out), Good(gpx))
      [] outcome = "write_failed" -> Put(files, Resolve(out), Corrupt)
      [] OTHER -> files

\* check_files, then output_files, of invert and decimate.
BatchBegin(fl, action, loop) ==
    LET chk == CheckFiles(fl)
    IN /\ idx' = 1
       /\ IF chk # "Ok"
          THEN outs' = <<>> /\ Return(chk)
          ELSE /\ outs' = [i \in 1..Len(fl) |-> GetOutputFilePath(fl[i], action)]
               /\ IF fl = <<>> THEN Return("Ok") ELSE pc' = loop /\ result' = "none"

Info(fl) ==
    /\ pc = "idle"
    /\ cmd' = [NoCmd EXCEPT !.name = "info", !.files = fl]
    /\ idx' = 1
    /\ IF CheckFiles(fl) # "Ok" THEN Return(CheckFiles(fl))
       ELSE IF fl = <<>> THEN Return("Ok")
       ELSE pc' = "info" /\ result' = "none"
    /\ UNCHANGED <<dirs, files, files0, outs, gpxs, events, pipeVars>>

InfoStep ==
    /\ pc = "info"
    /\ LET in == cmd.files[idx]
           content == files[Resolve(in)]
       IN /\ events' = Append(events, LoadEvent(in, content.ok))
          /\ IF ~content.ok THEN Return("ErrLoad") /\ UNCHANGED idx
             ELSE /\ idx' = idx + 1
                  /\ IF idx = Len(cmd.files) THEN Return("Ok")
                     ELSE pc' = pc /\ result' = result
    /\ UNCHANGED <<dirs, files, files0, cmd, outs, gpxs, pipeVars>>

Invert(fl) ==
    /\ pc = "idle"
    /\ cmd' = [NoCmd EXCEPT !.name = "invert", !.files = fl]
    /\ BatchBegin(fl, ActInvert, "invert")
    /\ UNCHANGED <<dirs, files, files0, gpxs, events, pipeVars>>

\* Faulty variant: the loop goes on to the next file after a failure.
InvertStepKeepGoing ==
    /\ pc = "invert"
    /\ LET in == cmd.files[idx]
           out == outs[idx]
           content == files[Resolve(in)]
           last == idx = Len(cmd.files)
       IN /\ idx' = idx + 1
          /\ IF ~content.ok
             THEN /\ events' = Append(events, LoadEvent(in, FALSE))
                  /\ IF last THEN Return("ErrLoad") ELSE UNCHANGED <<pc, result>>
                  /\ UNCHANGED files
             ELSE \E outcome \in SaveOutcomes(out) :
                     /\ events' = events \o <<LoadEvent(in, TRUE), SaveEvent(out, outcome = "ok")>>
                     /\ files' = FilesAfterSave(out, outcome, InvertDoc(content.gpx))
                     /\ IF last THEN Return(IF outcome = "ok" THEN "Ok" ELSE "ErrSave")
                        ELSE UNCHANGED <<pc, result>>
    /\ UNCHANGED <<dirs, files0, cmd, outs, gpxs, pipeVars>>

\* One iteration of the loop of invert: load, reverse, save.
InvertStep ==
    /\ pc = "invert"
    /\ LET in == cmd.files[idx]
           out == outs[idx]
           content == files[Resolve(in)]
       IN IF ~content.ok
          THEN /\ events' = Append(events, LoadEvent(in, FALSE))
               /\ Return("ErrLoad")
               /\ UNCHANGED <<files, idx>>
          ELSE \E outcome \in SaveOutcomes(out) :
                  /\ events' = events \o <<LoadEvent(in, TRUE), SaveEvent(out, outcome = "ok")>>
                  /\ files' = FilesAfterSave(out, outcome, InvertDoc(content.gpx))
                  /\ IF outcome # "ok" THEN Return("ErrSave") /\ UNCHANGED idx
                     ELSE /\ idx' = idx + 1
                          /\ IF idx = Len(cmd.files) THEN Return("Ok")
                             ELSE UNCHANGED <<pc, result>>
    /\ UNCHANGED <<dirs, files0, cmd, outs, gpxs, pipeVars>>

InvertAll(directory) ==
    /\ pc = "idle"
    /\ IF CheckDirectory(directory) # "Ok"
       THEN /\ cmd' = [NoCmd EXCEPT !.name = "invert_all", !.directory = directory]
            /\ Return(CheckDirectory(directory))
            /\ UNCHANGED <<idx, outs>>
       ELSE LET fl == ListGpxFiles(directory)
            IN /\ cmd' = [NoCmd EXCEPT !.name = "invert_all", !.directory = directory,
                                       !.files = fl]
               /\ IF fl = <<>> THEN Return("Ok") /\ UNCHANGED <<idx, outs>>
                  ELSE BatchBegin(fl, ActInvert, "invert")
    /\ UNCHANGED <<dirs, files, files0, gpxs, events, pipeVars>>

Decimate(fl, factor) ==
    /\ pc = "idle"
    /\ cmd' = [NoCmd EXCEPT !.name = "decimate", !.files = fl, !.factor = factor]
    /\ BatchBegin(fl, ActDecimate(factor), "decimate")
    /\ UNCHANGED <<dirs, files, files0, gpxs, events, pipeVars>>

\* One iteration of the loop of decimate: load, filter the points, save.
DecimateStep ==
    /\ pc = "decimate"
    /\ LET in == cmd.files[idx]
           out == outs[idx]
           content == files[Resolve(in)]
       IN IF ~content.ok
          THEN /\ events' = Append(events, LoadEvent(in, FALSE))
               /\ Return("ErrLoad")
               /\ UNCHANGED <<files, idx>>
          ELSE IF DecimatePanics(content.gpx, cmd.factor)
          THEN /\ events' = Append(events, LoadEvent(in, TRUE))
               /\ Return("Panic")
               /\ UNCHANGED <<files, idx>>
          ELSE \E outcome \in SaveOutcomes(out) :
                  /\ events' = events \o <<LoadEvent(in, TRUE), SaveEvent(out, outcome = "ok")>>
                  /\ files' = FilesAfterSave(out, outcome, DecimateDoc(content.gpx, cmd.factor))
                  /\ IF outcome # "ok" THEN Return("ErrSave") /\ UNCHANGED idx
                     ELSE /\ idx' = idx + 1
                          /\ IF idx = Len(cmd.files) THEN Return("Ok")
                             ELSE UNCHANGED <<pc, result>>
    /\ UNCHANGED <<dirs, files0, cmd, outs, gpxs, pipeVars>>

\* check_files of merge.
MergeBegin(fl) ==
    /\ idx' = 1
    /\ IF CheckFiles(fl) # "Ok" THEN Return(CheckFiles(fl))
       ELSE pc' = "merge" /\ result' = "none"

Merge(fl, output) ==
    /\ pc = "idle"
    /\ cmd' = [NoCmd EXCEPT !.name = "merge", !.files = fl, !.output = output]
    /\ MergeBegin(fl)
    /\ UNCHANGED <<dirs, files, files0, outs, gpxs, events, pipeVars>>

MergeAll(directory) ==
    /\ pc = "idle"
    /\ IF CheckDirectory(directory) # "Ok"
       THEN /\ cmd' = [NoCmd EXCEPT !.name = "merge_all", !.directory = directory]
            /\ Return(CheckDirectory(directory))
            /\ UNCHANGED idx
       ELSE LET fl == ListGpxFiles(directory)
            IN /\ cmd' = [NoCmd EXCEPT !.name = "merge_all", !.directory = directory,
                                       !.files = fl,
                                       !.output = IF fl = <<>> THEN <<>>
                                                  ELSE GetOutputFilePath(directory, ActMerge)]
               /\ IF fl = <<>> THEN Return("Ok") /\ UNCHANGED idx
                  ELSE MergeBegin(fl)
    /\ UNCHANGED <<dirs, files, files0, outs, gpxs, events, pipeVars>>

\* files.iter().map(load_gpx).collect::<Result<Vec<_>, _>>(): one file of it.
MergeLoad ==
    /\ pc = "merge"
    /\ idx <= Len(cmd.files)
    /\ LET in == cmd.files[idx]
           content == files[Resolve(in)]
       IN /\ events' = Append(events, LoadEvent(in, content.ok))
          /\ IF ~content.ok THEN Return("ErrLoad") /\ UNCHANGED <<idx, gpxs>>
             ELSE /\ gpxs' = Append(gpxs, content.gpx)
                  /\ idx' = idx + 1
                  /\ UNCHANGED <<pc, result>>
    /\ UNCHANGED <<dirs, files, files0, cmd, outs, pipeVars>>

\* The rest of merge: build the document and save it (save_gpx asserts the extension).
MergeSave ==
    /\ pc = "merge"
    /\ idx > Len(cmd.files)
    /\ IF Extension(cmd.output) # Some(S_gpx)
       THEN Return("Panic") /\ UNCHANGED <<files, events>>
       ELSE \E outcome \in SaveOutcomes(cmd.output) :
               /\ events' = Append(events, SaveEvent(cmd.output, outcome = "ok"))
               /\ files' = FilesAfterSave(cmd.output, outcome, MergeDocs(gpxs))
               /\ Return(IF outcome = "ok" THEN "Ok" ELSE "ErrSave")
    /\ UNCHANGED <<dirs, files0, cmd, idx, outs, gpxs, pipeVars>>

Init == FsInit /\ PipeIdle

Next ==
    \/ \E fl \in FileLists : Info(fl)
    \/ InfoStep
    \/ \E fl \in FileLists : Invert(fl)
    \/ \E directory \in DirArgs : InvertAll(directory)
    \/ InvertStep
    \/ \E fl \in FileLists : \E factor \in Factors : Decimate(fl, factor)
    \/ DecimateStep
    \/ \E fl \in FileLists : \E output \in OutputArgs : Merge(fl, output)
    \/ \E directory \in DirArgs : MergeAll(directory)
    \/ MergeLoad
    \/ MergeSave

Spec == Init /\ [][Next]_vars

PipeNext ==
    \/ PipeInvert
    \/ \E factor \in 1..MaxPipeFactor : PipeDecimate(factor)

PipeSpec == PipeInit /\ [][PipeNext]_vars

-----------------------------------------------------------------------------
(* Properties of the transforms (checked under PipeSpec). *)

KeptIndices(n, factor) == {i \in 0..(n - 1) : i % factor = 0 \/ i = n - 1}

\* The j-th smallest element of a set of numbers.
NthOf(K, j) == CHOOSE i \in K : Cardinality({m \in K : m < i}) = j - 1

DecimatedAsClaimed(p, q, factor) ==
    LET K == KeptIndices(Len(p), factor)
    IN /\ Len(q) = Cardinality(K)
       /\ \A j \in 1..Len(q) : q[j] = p[NthOf(K, j) + 1]
       /\ p # <<>> => q # <<>> /\ q[1] = p[1] /\ q[Len(q)] = p[Len(p)]
       /\ p = <<>> => q = <<>>

\* C1: after decimate with a factor >= 1, every segment of every track holds exactly
\* the input points at the 0-based indices i with i mod factor = 0 or i = n - 1, in
\* their original order; a non-empty segment keeps its first and its last point and
\* an empty segment stays empty, without a panic.
C1_DecimateKeepsEveryNthAndLast ==
    (Len(applied) = 1 /\ applied[1].kind = "Decimate") =>
        LET in == hist[1]
            out == hist[2]
            factor == applied[1].factor
        IN /\ factor >= 1
           /\ ~DecimatePanics(in, factor)
           /\ Len(out.tracks) = Len(in.tracks)
           /\ \A t \in 1..Len(in.tracks) :
                 /\ Len(out.tracks[t].segments) = Len(in.tracks[t].segments)
                 /\ \A s \in 1..Len(in.tracks[t].segments) :
                       DecimatedAsClaimed(in.tracks[t].segments[s],
                                          out.tracks[t].segments[s], factor)

\* A segment of three points decimated by 3 keeps the first and, by the last-point
\* rule alone, the third; the same document also holds an empty segment.
C1_Witness ==
    /\ Len(applied) = 1
    /\ applied[1] = ActDecimate(3)
    /\ \E t \in 1..Len(hist[1].tracks) :
          \E s \in 1..Len(hist[1].tracks[t].segments) :
             /\ Len(hist[1].tracks[t].segments[s]) = 3
             /\ hist[2].tracks[t].segments[s] =
                    <<hist[1].tracks[t].segments[s][1], hist[1].tracks[t].segments[s][3]>>
    /\ \E t \in 1..Len(hist[1].tracks) :
          \E s \in 1..Len(hist[1].tracks[t].segments) :
             /\ hist[1].tracks[t].segments[s] = <<>>
             /\ hist[2].tracks[t].segments[s] = <<>>

InvertedSuffix == <<" ", "(", "i", "n", "v", "e", "r", "t", "e", "d", ")">>

\* C4: inverting a document twice gives back the original order of tracks, of
\* segments within each track and of points within each segment; a track that had
\* a name carries the " (inverted)" suffix twice and an unnamed track stays unnamed.
C4_DoubleInvertRestoresOrder ==
    (Len(applied) = 2 /\ applied[1].kind = "Invert" /\ applied[2].kind = "Invert") =>
        LET in == hist[1]
            out == hist[3]
        IN /\ Len(out.tracks) = Len(in.tracks)
           /\ \A t \in 1..Len(in.tracks) :
                 /\ out.tracks[t].segments = in.tracks[t].segments
                 /\ in.tracks[t].name = None => out.tracks[t].name = None
                 /\ in.tracks[t].name # None =>
                       out.tracks[t].name =
                           Some(in.tracks[t].name[1] \o InvertedSuffix \o InvertedSuffix)

\* Two tracks, one named and one not, with two segments in a track and three points
\* in a segment, inverted twice; the once-inverted document differs from the original.
C4_Witness ==
    /\ Len(applied) = 2
    /\ applied[2].kind = "Invert"
    /\ Len(hist[1].tracks) = 2
    /\ hist[1].tracks[1].name # None
    /\ hist[1].tracks[2].name = None
    /\ Len(hist[1].tracks[1].segments) = 2
    /\ Len(hist[1].tracks[1].segments[1]) = 3
    /\ hist[2].tracks[2].segments[2] = Reverse(hist[1].tracks[1].segments[1])
    /\ hist[3].tracks = [t \in 1..2 |->
                            [hist[1].tracks[t] EXCEPT !.name =
                                IF @ = None THEN None
                                ELSE Some(@[1] \o InvertedSuffix \o InvertedSuffix)]]

-----------------------------------------------------------------------------
(* Properties of the commands (checked under Spec). *)

ValidationErrors == {"ErrSingleDirectory", "ErrNotAFile", "ErrWrongExtension", "ErrDuplicate"}

\* The command ran check_files on cmd.files and it passed.
Validated == pc # "idle" /\ cmd.files # <<>> /\ result \notin ValidationErrors

IsBatch == cmd.name \in {"invert", "invert_all", "decimate"}

\* The name ends in ".gpx" and has something before it.
EndsInGpx(path) ==
    LET name == path[Len(path)]
    IN Len(name) > 4 /\ SubSeq(name, Len(name) - 3, Len(name)) = <<".", "g", "p", "x">>

\* The documents the files of the list held when the command started.
StartDocs == [i \in 1..Len(cmd.files) |-> files0[Resolve(cmd.files[i])].gpx]

SegmentCount(gpx) == SumSeq([t \in 1..Len(gpx.tracks) |-> Len(gpx.tracks[t].segments)])

\* Where segment 1 of track t of document d lands in the concatenation, less one.
SegmentOffset(docs, d, t) ==
    SumSeq([e \in 1..(d - 1) |-> SegmentCount(docs[e])])
        + SumSeq([u \in 1..(t - 1) |-> Len(docs[d].tracks[u].segments)])

\* C3: a merge that returns Ok has saved, at the output path, one document with
\* exactly one track, no waypoints and no routes, whose segments are those of all
\* tracks of the loaded documents, in document, then track, then segment order, each
\* with its points unchanged; their number is the sum of the inputs' segment counts.
C3_MergeConcatenatesSegments ==
    (cmd.name \in {"merge", "merge_all"} /\ pc = "done" /\ result = "Ok" /\ cmd.output # <<>>) =>
        LET saved == files[Resolve(cmd.output)]
            docs == StartDocs
            segs == saved.gpx.tracks[1].segments
        IN /\ saved.ok
           /\ Len(saved.gpx.tracks) = 1
           /\ saved.gpx.waypoints = <<>>
           /\ saved.gpx.routes = <<>>
           /\ Len(segs) = SumSeq([d \in 1..Len(docs) |-> SegmentCount(docs[d])])
           /\ \A d \in 1..Len(docs) :
                 \A t \in 1..Len(docs[d].tracks) :
                    \A s \in 1..Len(docs[d].tracks[t].segments) :
                       segs[SegmentOffset(docs, d, t) + s] = docs[d].tracks[t].segments[s]

\* merge of a-inverted.gpx (one track) then a.gpx (two tracks, with waypoints and
\* routes) has returned Ok: five segments in the saved track.
C3_Witness ==
    /\ cmd.name = "merge"
    /\ cmd.files = << <<X, N_a_inverted_gpx>>, <<X, N_a_gpx>> >>
    /\ pc = "done"
    /\ result = "Ok"
    /\ files[Resolve(cmd.output)].gpx.tracks[1].segments =
           << <<>>, <<7, 8>>, <<1, 2, 3>>, <<4>>, <<5, 6>> >>

\* What the validation of a file list rejects, read on the file system the command
\* started from: a single directory, an entry that is not a regular file or is not
\* named *.gpx, or the same path given twice.
FailsValidation(fl) ==
    \/ Len(fl) = 1 /\ Resolve(fl[1]) \in dirs
    \/ \E i \in 1..Len(fl) : Resolve(fl[i]) \notin DOMAIN files0 \/ ~EndsInGpx(fl[i])
    \/ \E i, j \in 1..Len(fl) : i # j /\ fl[i] = fl[j]

\* C5: when the file list of info, invert, merge or decimate fails validation, the
\* command has returned a validation error with no document loaded, nothing saved
\* and the file system as it was.
C5_ValidationFailsFirst ==
    (cmd.name \in {"info", "invert", "merge", "decimate"} /\ FailsValidation(cmd.files)) =>
        /\ pc = "done"
        /\ result \in ValidationErrors
        /\ events = <<>>
        /\ files = files0

\* invert of a valid file followed by one with the wrong extension.
C5_Witness ==
    /\ cmd.name = "invert"
    /\ cmd.files = << <<X, N_a_gpx>>, <<X, N_a_txt>> >>
    /\ files0[<<X, N_a_gpx>>].ok
    /\ result = "ErrWrongExtension"
    /\ events = <<>>

\* The loads and saves of the first k iterations when each succeeded.
RECURSIVE CompletedEvents(_)
CompletedEvents(k) ==
    IF k = 0 THEN <<>>
    ELSE CompletedEvents(k - 1) \o <<LoadEvent(cmd.files[k], TRUE), SaveEvent(outs[k], TRUE)>>

\* The outputs of iterations 1..k-1 exist, and still hold a document unless a later
\* iteration up to k saved to the same path.
EarlierOutputsInPlace(k) ==
    \A j \in 1..(k - 1) :
        /\ Resolve(outs[j]) \in DOMAIN files
        /\ (\A i \in (j + 1)..k : i <= Len(outs) => Resolve(outs[i]) # Resolve(outs[j])) =>
               files[Resolve(outs[j])].ok

C2_ZeroFactorRejected ==
    (cmd.name = "decimate" /\ cmd.factor = 0 /\ cmd.files # <<>> /\ pc = "done") =>
        /\ result \in {"ErrInvalidFactor", "ErrLoad"} \cup ValidationErrors
        /\ files = files0

\* The file name the output of a file is said to get: <stem>-<label>.<extension>,
\* the stem being the name without its final extension.
ClaimedLabel(action) ==
    CASE action.kind = "Invert" -> <<"i", "n", "v", "e", "r", "t", "e", "d">>
      [] action.kind = "Merge" -> <<"m", "e", "r", "g", "e", "d">>
      [] action.kind = "Decimate" ->
            <<"d", "e", "c", "i", "m", "a", "t", "e", "d", "-", "b", "y", "-">>
                \o Decimal(action.factor)

ClaimedOutputName(name, action) ==
    LET ld == LastDot(name)
    IN SubSeq(name, 1, ld - 1) \o <<"-">> \o ClaimedLabel(action)
           \o SubSeq(name, ld, Len(name))

BatchAction == IF cmd.name = "decimate" THEN ActDecimate(cmd.factor) ELSE ActInvert

\* C7: the output path derived for an input file lies in the input's directory and
\* is named <original-stem>-<actionLabel>.<original-extension>.
C7_OutputPathNamedAfterInput ==
    (IsBatch /\ Validated) =>
        \A i \in 1..Len(outs) :
            LET in == Resolve(cmd.files[i])
            IN Resolve(outs[i]) =
                   Append(SubSeq(in, 1, Len(in) - 1),
                          ClaimedOutputName(in[Len(in)], BatchAction))

\* C8: validation rejects, with the duplicate-path error, every list of existing
\* *.gpx files in which two entries resolve to the same file.
C8_SameFileTwiceRejected ==
    (/\ cmd.name \in {"info", "invert", "merge", "decimate"}
     /\ \A i \in 1..Len(cmd.files) :
           Resolve(cmd.files[i]) \in DOMAIN files0 /\ EndsInGpx(cmd.files[i])
     /\ \E i, j \in 1..Len(cmd.files) :
           i # j /\ Resolve(cmd.files[i]) = Resolve(cmd.files[j])) =>
        /\ pc = "done"
        /\ result = "ErrDuplicate"

\* C9: the scan of an existing directory yields exactly the regular files of the
\* directory named *.gpx, in ascending order, so the list passes file validation.
C9_ScanListsRegularGpxFiles ==
    (cmd.name \in {"invert_all", "merge_all"} /\ IsDir(cmd.directory)) =>
        /\ {Resolve(cmd.files[i]) : i \in 1..Len(cmd.files)} =
               {k \in DOMAIN files0 :
                   /\ SubSeq(k, 1, Len(k) - 1) = Resolve(cmd.directory)
                   /\ EndsInGpx(k)}
        /\ \A i, j \in 1..Len(cmd.files) :
               i < j => StrLess(cmd.files[i][Len(cmd.files[i])], cmd.files[j][Len(cmd.files[j])])
        /\ result \notin ValidationErrors

\* Every entry names another file and no stem holds a dot.
PlainList(fl) ==
    /\ \A i, j \in 1..Len(fl) : i # j => Resolve(fl[i]) # Resolve(fl[j])
    /\ \A i \in 1..Len(fl) :
          Cardinality({c \in 1..Len(fl[i][Len(fl[i])]) : fl[i][Len(fl[i])][c] = "."}) = 1

====
